---- MODULE Spec2Model ----
\* The HiGHS backend of good_lp (src/src/solvers/highs.rs): lowering an
\* abstract LP problem to a row-oriented solver model, solving it, mapping
\* the termination status, and the lazily cached dual values.
\*
\* f64 values are modelled by small integers; every operation the code applies
\* to them (negation, copy, comparison with nothing) is exact on these.
\* Indices (Variable::index, Col, Row, ConstraintReference::index) are
\* 0-based as in the source; TLA+ sequences are 1-based, so an access
\* v[i] of the source reads seq[i + 1] here.
\* HighsSolution::value and the two into_inner accessors read state only and
\* no property below concerns them; the primal vector is left out.
EXTENDS Integers, Sequences, FiniteSets, TLC

VARIABLES
    to_solve,       \* the UnsolvedProblem handed to highs()
    phase,          \* "unbuilt" | "built" | "solved" | "failed" | "panicked"
    sense,          \* HighsProblem.sense
    highs_problem,  \* HighsProblem.highs_problem (highs::RowProblem)
    columns,        \* HighsProblem.columns (Vec<highs::Col>)
    n_constraints,  \* HighsProblem.n_constraints
    calls,          \* history: per add_constraint call, its argument, the
                    \* ConstraintReference returned and the backend Row appended
    status,         \* the backend's termination status read by solve()
    result,         \* what solve() returned
    solution,       \* HighsSolution.solution (highs::Solution)
    dual_values,    \* HighsSolution.dual_values
    acquired,       \* HighsSolution.acquired
    fetches,        \* history: number of reads of solution.dual_rows()
    gets,           \* history: number of get_dual calls
    ret             \* the last operation and what it returned

vars == <<to_solve, phase, sense, highs_problem, columns, n_constraints, calls,
          status, result, solution, dual_values, acquired, fetches, gets,
          ret>>

problemVars == <<sense, highs_problem, columns, n_constraints>>
solutionVars == <<status, result, solution, dual_values, acquired, fetches,
                  gets>>

-----------------------------------------------------------------------------
\* Bounds of the model.

MaxVars == 2
MaxConstraints == 2
MaxGetDual == 2

\* Value sets the inputs are drawn from.
Mins == {0, 1}
Maxs == {2, 3}
ObjectiveCoefficients == {-1, 2}
ConstraintCoefficients == {0, 1}
ConstraintConstants == {-1, 2}
DualEntries == {5, 7}

-----------------------------------------------------------------------------
\* Option<f64>
None == <<>>
Some(v) == <<v>>

\* std::ops::Bound and the three range forms the source writes.
Included(v) == [kind |-> "Included", v |-> v]
Excluded(v) == [kind |-> "Excluded", v |-> v]
Unbounded == [kind |-> "Unbounded", v |-> 0]

\* min..max
Range(lo, hi) == [start |-> Included(lo), end |-> Excluded(hi)]
\* lo..=hi
RangeInclusive(lo, hi) == [start |-> Included(lo), end |-> Included(hi)]
\* ..=hi
RangeToInclusive(hi) == [start |-> Unbounded, end |-> Included(hi)]

\* The backend reads a bound's value whether it is included or excluded, and
\* no value (an infinite bound) when it is unbounded.
bound_value(b) == IF b.kind = "Unbounded" THEN None ELSE Some(b.v)

\* highs::RowProblem::default()
RowProblemDefault == [cols |-> <<>>, rows |-> <<>>]

\* highs::RowProblem::add_column: appends a column, returns its Col handle.
add_column(p, col_factor, bounds) ==
    [problem |-> [p EXCEPT !.cols = Append(@, [obj  |-> col_factor,
                                                low  |-> bound_value(bounds.start),
                                                high |-> bound_value(bounds.end)])],
     col |-> Len(p.cols)]

\* highs::RowProblem::add_row: appends a row, returns its Row handle. The
\* factors are (Col, f64) pairs; their order carries no meaning in the
\* backend's matrix, so they are kept as a set.
add_row(p, bounds, factors) ==
    [problem |-> [p EXCEPT !.rows = Append(@, [low     |-> bound_value(bounds.start),
                                                high    |-> bound_value(bounds.end),
                                                factors |-> factors])],
     row |-> Len(p.rows)]

-----------------------------------------------------------------------------
\* The abstract model: variables are 0 .. n-1 in declaration order.

Variables(n) == 0 .. (n - 1)

\* Partial maps from a set of keys to a set of values (a HashMap).
PartialMaps(K, V) == UNION {[D -> V] : D \in SUBSET K}

VariableDefinitions == [min : Mins, max : Maxs]

ObjectiveDirection == {"Maximisation", "Minimisation"}

\* Every UnsolvedProblem of at most MaxVars variables over the value sets.
UnsolvedProblems ==
    UNION {[variables : [1 .. n -> VariableDefinitions],
            objective : [linear : [coefficients :
                            PartialMaps(Variables(n), ObjectiveCoefficients)]],
            direction : ObjectiveDirection] : n \in 0 .. MaxVars}

\* The problems of at most MaxVars variables that differ in size and
\* direction only: every variable in [0, 2] with objective coefficient 2.
PlainProblems ==
    {[variables |-> [i \in 1 .. n |-> [min |-> 0, max |-> 2]],
      objective |-> [linear |-> [coefficients |-> [v \in Variables(n) |-> 2]]],
      direction |-> d] : n \in 0 .. MaxVars, d \in ObjectiveDirection}

\* Every Constraint over the variables 0 .. n-1: an expression (coefficient
\* map, which may hold explicit zero entries, plus constant) and is_equality.
\* Its variables are variables of the problem being built, as the callers of
\* add_constraint must ensure (columns[variable.index()] is not re-validated).
Constraints(n) ==
    [expression : [linear : [coefficients :
                       PartialMaps(Variables(n), ConstraintCoefficients)],
                   constant : ConstraintConstants],
     is_equality : BOOLEAN]

\* The constraints whose expression names every variable with coefficient 1.
FullConstraints(n) ==
    {c \in Constraints(n) :
        /\ DOMAIN c.expression.linear.coefficients = Variables(n)
        /\ \A v \in Variables(n) : c.expression.linear.coefficients[v] = 1}

\* VariablesList::iter_variables_with_def: (Variable, definition) pairs in
\* declaration order.
iter_variables_with_def(variables) ==
    [i \in 1 .. Len(variables) |-> <<i - 1, variables[i]>>]

\* Expression::linear_coefficients: the entries of the coefficient map.
linear_coefficients(expression) ==
    {<<v, expression.linear.coefficients[v]>> :
        v \in DOMAIN expression.linear.coefficients}

\* Expression::constant
constant(expression) == expression.constant

-----------------------------------------------------------------------------
\* highs(): one column per variable, no rows.

Sense(direction) ==
    IF direction = "Maximisation" THEN "Maximise" ELSE "Minimise"

\* A variable's objective coefficient read with a default: 1 when absent.
col_factor_default_one(objective, var) ==
    IF var \in DOMAIN objective.linear.coefficients
    THEN objective.linear.coefficients[var]
    ELSE 1

\* objective.linear.coefficients.get(&var).unwrap_or(&0.)
col_factor(objective, var) ==
    IF var \in DOMAIN objective.linear.coefficients
    THEN objective.linear.coefficients[var]
    ELSE 0

\* The loop of highs() over the remaining (variable, definition) pairs.
RECURSIVE highs_columns(_, _, _)
highs_columns(objective, items, acc) ==
    IF Len(items) = 0 THEN acc
    ELSE LET var == Head(items)[1]
             def == Head(items)[2]
             added == add_column(acc.highs_problem, col_factor(objective, var),
                                 Range(def.min, def.max))
         IN  highs_columns(objective, Tail(items),
                           [highs_problem |-> added.problem,
                            columns |-> Append(acc.columns, added.col)])

Ret(op, arg, kind, v) == [op |-> op, arg |-> arg, kind |-> kind, v |-> v]

highs ==
    /\ phase = "unbuilt"
    /\ LET built == highs_columns(to_solve.objective,
                                  iter_variables_with_def(to_solve.variables),
                                  [highs_problem |-> RowProblemDefault,
                                   columns |-> <<>>])
       IN  /\ sense' = Sense(to_solve.direction)
           /\ highs_problem' = built.highs_problem
           /\ columns' = built.columns
           /\ n_constraints' = 0
    /\ phase' = "built"
    /\ ret' = Ret("highs", 0, "HighsProblem", 0)
    /\ UNCHANGED <<to_solve, calls, solutionVars>>

-----------------------------------------------------------------------------
\* put_constraint and add_constraint: one row per constraint.

\* The bound taken as the constant itself.
upper_bound_unnegated(constraint) == constant(constraint.expression)

\* -constraint.expression.constant()
upper_bound(constraint) == -constant(constraint.expression)

\* The (Col, factor) pairs of the row: each entry of the expression's
\* coefficient map, its variable replaced by columns[variable.index()].
factors(cols, constraint) ==
    {<<cols[f[1] + 1], f[2]>> : f \in linear_coefficients(constraint.expression)}

\* put_constraint overwriting the last row instead of leaving it alone.
put_constraint_overwriting(constraint) ==
    /\ LET kept == [highs_problem EXCEPT !.rows =
                        IF Len(@) = 0 THEN @ ELSE SubSeq(@, 1, Len(@) - 1)]
           range == IF constraint.is_equality
                    THEN RangeInclusive(upper_bound(constraint), upper_bound(constraint))
                    ELSE RangeToInclusive(upper_bound(constraint))
       IN  highs_problem' =
               add_row(add_row(kept, range, factors(columns, constraint)).problem,
                       range, factors(columns, constraint)).problem
    /\ n_constraints' = n_constraints + 1
    /\ UNCHANGED <<sense, columns>>

put_constraint(constraint) ==
    /\ IF constraint.is_equality
       THEN highs_problem' =
                add_row(highs_problem,
                        RangeInclusive(upper_bound(constraint), upper_bound(constraint)),
                        factors(columns, constraint)).problem
       ELSE highs_problem' =
                add_row(highs_problem,
                        RangeToInclusive(upper_bound(constraint)),
                        factors(columns, constraint)).problem
    /\ n_constraints' = n_constraints + 1
    /\ UNCHANGED <<sense, columns>>

\* add_constraint returning the row counter after the increment.
add_constraint_count(c) ==
    /\ phase = "built"
    /\ n_constraints < MaxConstraints
    /\ put_constraint(c)
    /\ calls' = Append(calls, [c |-> c,
                               reference |-> [index |-> n_constraints'],
                               row |-> Len(highs_problem'.rows) - 1])
    /\ ret' = Ret("add_constraint", 0, "ConstraintReference", n_constraints')
    /\ UNCHANGED <<to_solve, phase, solutionVars>>

\* The call also records, in calls, the reference it returned and the Row
\* the backend gave the row just appended (the last row of the problem).
add_constraint(c) ==
    /\ phase = "built"
    /\ n_constraints < MaxConstraints
    /\ put_constraint(c)
    /\ calls' = Append(calls, [c |-> c,
                               reference |-> [index |-> n_constraints' - 1],
                               row |-> Len(highs_problem'.rows) - 1])
    /\ ret' = Ret("add_constraint", 0, "ConstraintReference", n_constraints' - 1)
    /\ UNCHANGED <<to_solve, phase, solutionVars>>

-----------------------------------------------------------------------------
\* solve(): the backend is a black box that ends with any status and, for
\* each row of the model, a dual value.

\* The statuses solve() names.
OtherStatuses == {"NotSet", "LoadError", "ModelError", "PresolveError",
                  "SolveError", "PostsolveError", "ModelEmpty"}
NamedStatuses == OtherStatuses \cup {"PrimalInfeasible", "PrimalUnbounded"}

\* The optimal/feasible success status of the backend.
SuccessStatuses == {"Optimal"}

\* Statuses of the backend that solve() does not name and that report no
\* optimum: a limit was reached before the solver finished.
LimitStatuses == {"ReachedTimeLimit", "ReachedIterationLimit"}

HighsModelStatus == NamedStatuses \cup SuccessStatuses \cup LimitStatuses

NoSolution == [solution |-> [dual_rows |-> <<>>], dual_values |-> <<>>,
               acquired |-> FALSE]

Err(e) == [kind |-> "Err", error |-> e, value |-> NoSolution]
Ok(s) == [kind |-> "Ok", error |-> <<>>, value |-> s]

Infeasible == <<"Infeasible">>
Unbounded_ == <<"Unbounded">>
Other(reason) == <<"Other", reason>>

\* The match with the infeasible and unbounded arms exchanged.
match_status_exchanged(st, solved_solution) ==
    CASE st \in OtherStatuses -> Err(Other(st))
      [] st = "PrimalInfeasible" -> Err(Unbounded_)
      [] st = "PrimalUnbounded" -> Err(Infeasible)
      [] OTHER -> Ok([solution |-> solved_solution, dual_values |-> <<>>,
                      acquired |-> FALSE])

\* The match building a Solution whose duals count as acquired.
match_status_acquired(st, solved_solution) ==
    CASE st \in OtherStatuses -> Err(Other(st))
      [] st = "PrimalInfeasible" -> Err(Infeasible)
      [] st = "PrimalUnbounded" -> Err(Unbounded_)
      [] OTHER -> Ok([solution |-> solved_solution, dual_values |-> <<>>,
                      acquired |-> TRUE])

\* match solved.status() { ... }
match_status(st, solved_solution) ==
    CASE st = "NotSet" -> Err(Other("NotSet"))
      [] st = "LoadError" -> Err(Other("LoadError"))
      [] st = "ModelError" -> Err(Other("ModelError"))
      [] st = "PresolveError" -> Err(Other("PresolveError"))
      [] st = "SolveError" -> Err(Other("SolveError"))
      [] st = "PostsolveError" -> Err(Other("PostsolveError"))
      [] st = "ModelEmpty" -> Err(Other("ModelEmpty"))
      [] st = "PrimalInfeasible" -> Err(Infeasible)
      [] st = "PrimalUnbounded" -> Err(Unbounded_)
      [] OTHER -> Ok([solution |-> solved_solution, dual_values |-> <<>>,
                      acquired |-> FALSE])

solve ==
    /\ phase = "built"
    /\ \E st \in HighsModelStatus,
          duals \in [1 .. Len(highs_problem.rows) -> DualEntries] :
          LET r == match_status(st, [dual_rows |-> duals])
          IN  /\ status' = st
              /\ result' = [kind |-> r.kind, error |-> r.error]
              /\ solution' = r.value.solution
              /\ dual_values' = r.value.dual_values
              /\ acquired' = r.value.acquired
              /\ phase' = IF r.kind = "Ok" THEN "solved" ELSE "failed"
              /\ ret' = Ret("solve", 0, r.kind, 0)
    /\ UNCHANGED <<to_solve, problemVars, calls, fetches, gets>>

-----------------------------------------------------------------------------
\* The solution view: get_dual fills the cache, dual reads it. The model
\* follows at most MaxGetDual calls of get_dual on one solution.

\* get_dual copying the vector on every call.
get_dual_every_call ==
    /\ phase = "solved"
    /\ gets < MaxGetDual
    /\ gets' = gets + 1
    /\ dual_values' = solution.dual_rows
    /\ acquired' = TRUE
    /\ fetches' = fetches + 1
    /\ ret' = Ret("get_dual", 0, "Self", 0)
    /\ UNCHANGED <<to_solve, phase, problemVars, calls, status, result, solution>>

get_dual ==
    /\ phase = "solved"
    /\ gets < MaxGetDual
    /\ gets' = gets + 1
    /\ IF ~acquired
       THEN /\ dual_values' = solution.dual_rows
            /\ acquired' = TRUE
            /\ fetches' = fetches + 1
       ELSE UNCHANGED <<dual_values, acquired, fetches>>
    /\ ret' = Ret("get_dual", 0, "Self", 0)
    /\ UNCHANGED <<to_solve, phase, problemVars, calls, status, result, solution>>

\* dual reading the vector from its end.
dual_reversed(constraint) ==
    /\ phase = "solved"
    /\ IF constraint.index < Len(dual_values)
       THEN /\ ret' = Ret("dual", constraint.index, "f64",
                          dual_values[Len(dual_values) - constraint.index])
            /\ phase' = phase
       ELSE /\ ret' = Ret("dual", constraint.index, "panic", 0)
            /\ phase' = "panicked"
    /\ UNCHANGED <<to_solve, problemVars, calls, solutionVars>>

\* self.dual_values[constraint.index]: an index past the end panics.
dual(constraint) ==
    /\ phase = "solved"
    /\ IF constraint.index < Len(dual_values)
       THEN /\ ret' = Ret("dual", constraint.index, "f64",
                          dual_values[constraint.index + 1])
            /\ phase' = phase
       ELSE /\ ret' = Ret("dual", constraint.index, "panic", 0)
            /\ phase' = "panicked"
    /\ UNCHANGED <<to_solve, problemVars, calls, solutionVars>>

-----------------------------------------------------------------------------
\* Specifications.

InitWith(problems) ==
    /\ to_solve \in problems
    /\ phase = "unbuilt"
    /\ sense = "unset"
    /\ highs_problem = RowProblemDefault
    /\ columns = <<>>
    /\ n_constraints = 0
    /\ calls = <<>>
    /\ status = "NotSet"
    /\ result = [kind |-> "none", error |-> <<>>]
    /\ solution = NoSolution.solution
    /\ dual_values = <<>>
    /\ acquired = FALSE
    /\ fetches = 0
    /\ gets = 0
    /\ ret = Ret("none", 0, "unit", 0)

\* The whole life cycle: build, add constraints, solve, read duals.
Init == InitWith(PlainProblems)

Next ==
    \/ highs
    \/ \E c \in FullConstraints(Len(columns)) : add_constraint(c)
    \/ solve
    \/ get_dual
    \/ \E j \in 1 .. Len(calls) : dual(calls[j].reference)

Spec == Init /\ [][Next]_vars

\* Building the rows, over every constraint of the value sets.
InitBuild == InitWith(PlainProblems)

NextBuild ==
    \/ highs
    \/ \E c \in Constraints(Len(columns)) : add_constraint(c)

SpecBuild == InitBuild /\ [][NextBuild]_vars

\* Building the columns, over every problem of the value sets.
InitColumns == InitWith(UnsolvedProblems)

NextColumns == highs

SpecColumns == InitColumns /\ [][NextColumns]_vars

-----------------------------------------------------------------------------
\* Properties.

Rows == highs_problem.rows
Cols == highs_problem.cols

\* C1: the k-th add_constraint call (k from 0) returns the
\* ConstraintReference of index k: increasing, no gap, no index twice.
C1_IndexIsInsertionOrder ==
    \A k \in 1 .. Len(calls) : calls[k].reference.index = k - 1

C1_Witness ==
    /\ Len(calls) = 2
    /\ ret.op = "add_constraint"
    /\ ret.v = 1

\* C2: the row appended for a constraint of constant k has upper bound -k;
\* its lower bound is -k when is_equality, and absent otherwise.
C2_RowBounds ==
    \A j \in 1 .. Len(calls) :
        LET row == Rows[calls[j].row + 1]
            k == calls[j].c.expression.constant
        IN  /\ row.high = Some(-k)
            /\ calls[j].c.is_equality => row.low = Some(-k)
            /\ ~calls[j].c.is_equality => row.low = None

C2_Witness ==
    /\ Len(calls) = 2
    /\ calls[1].c.is_equality
    /\ calls[1].c.expression.constant = 2
    /\ Rows[1].low = <<-2>> /\ Rows[1].high = <<-2>>
    /\ ~calls[2].c.is_equality
    /\ calls[2].c.expression.constant = -1
    /\ Rows[2].low = <<>> /\ Rows[2].high = <<1>>

\* C3: the built model has one column per variable, the column at position i
\* is the one of variable i, with that variable's bounds [min, max] and its
\* objective coefficient, 0 when the objective does not mention it.
C3_ColumnsMatchVariables ==
    phase # "unbuilt" =>
        /\ Len(Cols) = Len(to_solve.variables)
        /\ Len(columns) = Len(to_solve.variables)
        /\ \A i \in 1 .. Len(to_solve.variables) :
              LET coefficients == to_solve.objective.linear.coefficients
              IN  /\ columns[i] = i - 1
                  /\ Cols[i].low = Some(to_solve.variables[i].min)
                  /\ Cols[i].high = Some(to_solve.variables[i].max)
                  /\ (i - 1) \in DOMAIN coefficients =>
                        Cols[i].obj = coefficients[i - 1]
                  /\ (i - 1) \notin DOMAIN coefficients => Cols[i].obj = 0

C3_Witness ==
    /\ phase = "built"
    /\ Len(columns) = 2
    /\ to_solve.variables[1] # to_solve.variables[2]
    /\ DOMAIN to_solve.objective.linear.coefficients = {1}
    /\ Cols[1].obj = 0
    /\ Cols[2].obj = -1
    /\ Cols[1].low = <<1>> /\ Cols[1].high = <<3>>
    /\ Cols[2].low = <<0>> /\ Cols[2].high = <<2>>

\* C4: solve() returns a Solution only for an optimal/feasible success
\* status; every other status is an error, and a status that solve() does
\* not name and that is no success gives ResolutionError::Other.
C4_OnlySuccessGivesSolution ==
    result.kind # "none" =>
        /\ result.kind = "Ok" => status \in SuccessStatuses
        /\ status \notin (NamedStatuses \cup SuccessStatuses) =>
              /\ result.kind = "Err"
              /\ result.error[1] = "Other"

\* C5: every status leads to exactly one of Infeasible, Unbounded,
\* Other(reason), Success; primal infeasible gives Infeasible, primal
\* unbounded gives Unbounded, and each of NotSet, LoadError, ModelError,
\* PresolveError, SolveError, PostsolveError, ModelEmpty gives Other tagged
\* with the status's own name.
C5_StatusMapping ==
    result.kind # "none" =>
        /\ \/ result = [kind |-> "Ok", error |-> <<>>]
           \/ result = [kind |-> "Err", error |-> <<"Infeasible">>]
           \/ result = [kind |-> "Err", error |-> <<"Unbounded">>]
           \/ \E reason \in HighsModelStatus :
                 result = [kind |-> "Err", error |-> <<"Other", reason>>]
        /\ status = "PrimalInfeasible" =>
              result = [kind |-> "Err", error |-> <<"Infeasible">>]
        /\ status = "PrimalUnbounded" =>
              result = [kind |-> "Err", error |-> <<"Unbounded">>]
        /\ status \in {"NotSet", "LoadError", "ModelError", "PresolveError",
                       "SolveError", "PostsolveError", "ModelEmpty"} =>
              result = [kind |-> "Err", error |-> <<"Other", status>>]

C5_Witness ==
    /\ phase = "failed"
    /\ status = "PostsolveError"
    /\ result = [kind |-> "Err", error |-> <<"Other", "PostsolveError">>]

\* C6: over any sequence of get_dual calls on one Solution the backend's
\* row-dual vector is read at most once, and a call made when the duals are
\* acquired changes neither the cached values nor the flag.
C6_GetDualIdempotent ==
    /\ [](fetches <= 1)
    /\ [][(gets' = gets + 1 /\ acquired) =>
             /\ dual_values' = dual_values
             /\ acquired' = acquired
             /\ fetches' = fetches]_vars

C6_Witness ==
    /\ gets = 2
    /\ fetches = 1
    /\ acquired
    /\ Len(dual_values) = 2
    /\ dual_values = solution.dual_rows

\* C7: once get_dual has been called, dual(c) of a reference c that
\* add_constraint returned is the backend's row-dual entry of the row that
\* the same add_constraint call appended.
C7_DualOfOwnRow ==
    \A j \in 1 .. Len(calls) :
        (ret.op = "dual" /\ ret.arg = calls[j].reference.index /\ gets >= 1) =>
            /\ ret.kind = "f64"
            /\ ret.v = solution.dual_rows[calls[j].row + 1]

C7_Witness ==
    /\ ret.op = "dual"
    /\ gets >= 1
    /\ Len(calls) = 2
    /\ ret.arg = calls[2].reference.index
    /\ solution.dual_rows = <<5, 7>>
    /\ ret.kind = "f64"
    /\ ret.v = 7

\* C8: an add_constraint call appends exactly one row and adds one to the
\* row counter; the sense, the columns and every earlier row (position,
\* bounds, coefficients) stay as they were.
C8_AddConstraintAdditive ==
    [][Len(calls') = Len(calls) + 1 =>
          /\ Len(highs_problem'.rows) = Len(Rows) + 1
          /\ SubSeq(highs_problem'.rows, 1, Len(Rows)) = Rows
          /\ n_constraints' = n_constraints + 1
          /\ highs_problem'.cols = Cols
          /\ columns' = columns
          /\ sense' = sense]_vars

C8_Witness ==
    /\ Len(calls) = 2
    /\ n_constraints = 2
    /\ Len(Rows) = 2
    /\ Len(Cols) = 2
    /\ Rows[1] # Rows[2]

\* C9: no row holds a (column, 0) entry: the coefficient list of a row names
\* only columns of variables whose coefficient in the expression is nonzero.
C9_NoZeroFactor ==
    \A j \in 1 .. Len(calls) :
        LET coefficients == calls[j].c.expression.linear.coefficients
        IN  \A f \in Rows[calls[j].row + 1].factors :
                /\ f[2] # 0
                /\ \E v \in DOMAIN coefficients :
                      columns[v + 1] = f[1] /\ coefficients[v] # 0

\* C10: in every state of a Solution the cache agrees with the flag: not
\* acquired, the cached vector is empty and dual(c) fails for every c;
\* acquired, the cached vector is the backend's row-dual vector; and
\* acquired never returns to false.
C10_CacheAgreesWithFlag ==
    /\ [](result.kind = "Ok" =>
            /\ ~acquired => Len(dual_values) = 0
            /\ acquired => dual_values = solution.dual_rows)
    /\ [][acquired => acquired']_vars
    /\ [][(~acquired /\ ret'.op = "dual") => ret'.kind = "panic"]_vars

C10_Witness ==
    /\ result.kind = "Ok"
    /\ acquired
    /\ Len(solution.dual_rows) = 2
    /\ dual_values = solution.dual_rows
    /\ ret.op = "dual"

====
